---- MODULE Spec2Model ----
(***************************************************************************)
(* A model of app.py: the Streamlit page that turns an uploaded PDF into   *)
(* three entity sets (authors, organizations, citations) and a NetworkX    *)
(* graph that is rendered through a temporary HTML file.                   *)
(*                                                                         *)
(* A text is represented by the sequence of (text, label_) entities the    *)
(* NER engine returns on it.  Python sets and dict keys are sequences      *)
(* without repetition, in insertion order; membership is decided by the    *)
(* operators that add to them, as set.add and dict assignment do.          *)
(***************************************************************************)
EXTENDS Integers, Sequences, FiniteSets, TLC

\* ------------------------------------------------------------------ bounds

\* Longest sequence of entities the NER engine returns on an uploaded text.
MaxEnts == 3

\* Number of distinct entity strings in the inputs of create_knowledge_graph
\* when it is checked as a function of its three arguments (SpecGraph).
NumTexts == 3

\* Temporary files left on disk by earlier runs, after which no run starts.
MaxLeaked == 1

AllTexts ==
    <<"Jane Doe", "Acme Corp", "Attention Is All You Need", "MIT", "BERT">>

\* Entity strings of the uploaded documents.
DocTexts == {AllTexts[1], AllTexts[2]}

\* Entity strings of the arguments of create_knowledge_graph under SpecGraph.
Texts == {AllTexts[i] : i \in 1..NumTexts}

\* Labels of the NER engine: the four the program consumes and one it drops.
Labels == {"PERSON", "ORG", "WORK_OF_ART", "MISC", "GPE"}

Ent == [text : DocTexts, label_ : Labels]

SeqsUpTo(S, n) == UNION {[1..k -> S] : k \in 0..n}

Range(s) == {s[i] : i \in 1..Len(s)}

\* A Python set of strings: a sequence without repetition.
IsPySet(s) == \A i, j \in 1..Len(s) : s[i] = s[j] => i = j

PySets(S) == {s \in SeqsUpTo(S, Cardinality(S)) : IsPySet(s)}

\* TLC hands an operator its arguments unevaluated, so a loop that passes its
\* accumulator on nests one evaluation per round.  Computed(v) is TRUE, and
\* has v evaluated where it stands: the loops below test it on each round.
Computed(v) == v = v

\* ------------------------------------------------------------------- state

VARIABLES
    pc,             \* position of the script run
    uploaded_file,  \* value of st.file_uploader: [present, ents]
    text,           \* local of main
    authors,        \* local of main
    organizations,  \* local of main
    citations,      \* local of main
    G,              \* local of main: the NetworkX graph
    net,            \* local of render_graph: the Pyvis network
    tmpfile,        \* the temporary file of this run: [created, exists, content]
    html_code,      \* local of render_graph, then graph_html of main
    leaked,         \* temporary files on disk left by earlier runs
    page,           \* what the page shows for this run
    failed,         \* the stage that raised in this run, "none" if none
    trace           \* the stages this run has entered, in order

vars == <<pc, uploaded_file, text, authors, organizations, citations, G, net,
          tmpfile, html_code, leaked, page, failed, trace>>

\* ------------------------------------------------- extract_entities (19-34)

\* doc = nlp(text); doc.ents: the text is the entity sequence found on it.
nlp(t) == t

\* extract_text_from_pdf: the page texts of the uploaded file, joined.
extract_text_from_pdf(pdf_file) == pdf_file.ents

set_add_append(s, x) == Append(s, x)

\* set.add: adding an element the set holds leaves the set as it is.
set_add(s, x) == IF \E i \in 1..Len(s) : s[i] = x THEN s ELSE Append(s, x)

EmptySets == [authors |-> <<>>, organizations |-> <<>>, citations |-> <<>>]

bucket_no_misc(acc, ent) ==
    IF ent.label_ = "PERSON"
    THEN [acc EXCEPT !.authors = set_add(@, ent.text)]
    ELSE IF ent.label_ = "ORG"
    THEN [acc EXCEPT !.organizations = set_add(@, ent.text)]
    ELSE IF ent.label_ \in {"WORK_OF_ART"}
    THEN [acc EXCEPT !.citations = set_add(@, ent.text)]
    ELSE acc

\* The body of the loop over doc.ents: one entity goes to at most one set.
bucket(acc, ent) ==
    IF ent.label_ = "PERSON"
    THEN [acc EXCEPT !.authors = set_add(@, ent.text)]
    ELSE IF ent.label_ = "ORG"
    THEN [acc EXCEPT !.organizations = set_add(@, ent.text)]
    ELSE IF ent.label_ \in {"WORK_OF_ART", "MISC"}
    THEN [acc EXCEPT !.citations = set_add(@, ent.text)]
    ELSE acc

\* Lines 26-32: for ent in doc.ents, from the i-th entity on.
RECURSIVE ents_loop(_, _, _)
ents_loop(ents, i, acc) ==
    IF i > Len(ents) THEN acc
    ELSE LET acc1 == bucket(acc, ents[i])
         IN  IF Computed(acc1) THEN ents_loop(ents, i + 1, acc1) ELSE acc1

extract_entities(t) == ents_loop(nlp(t), 1, EmptySets)

\* ------------------------------------------- create_knowledge_graph (36-53)

nx_Graph_shared ==
    [node  |-> <<[id |-> AllTexts[1], label |-> "Author", color |-> "blue"]>>,
     edges |-> {}]

\* nx.Graph(): a new graph, without nodes or edges.
nx_Graph == [node |-> <<>>, edges |-> {}]

EmptyNet == [nodes |-> {}, edges |-> {}]

has_node(g, n) == \E i \in 1..Len(g.node) : g.node[i].id = n

\* G.add_node(n, label=..., color=...): a node the graph holds keeps its place
\* and takes the new attributes.
add_node(g, n, label, color) ==
    IF has_node(g, n)
    THEN [g EXCEPT !.node =
            [i \in 1..Len(@) |->
                IF @[i].id = n THEN [id |-> n, label |-> label, color |-> color]
                ELSE @[i]]]
    ELSE [g EXCEPT !.node = Append(@, [id |-> n, label |-> label, color |-> color])]

bare_node(g, n) ==
    IF has_node(g, n) THEN g
    ELSE [g EXCEPT !.node = Append(@, [id |-> n, label |-> "", color |-> ""])]

\* G.add_edge(u, v): an undirected edge, {u} when u = v; missing end points
\* become nodes without attributes.
add_edge(g, u, v) ==
    [bare_node(bare_node(g, u), v) EXCEPT !.edges = @ \cup {{u, v}}]

RECURSIVE link_authors_skip_self(_, _, _, _)
link_authors_skip_self(g, as, j, target) ==
    IF j > Len(as) THEN g
    ELSE LET g1 == IF as[j] = target THEN g ELSE add_edge(g, as[j], target)
         IN  IF Computed(g1)
             THEN link_authors_skip_self(g1, as, j + 1, target) ELSE g1

\* Lines 45-46 and 50-51: for author in authors: G.add_edge(author, target),
\* from the j-th author on.
RECURSIVE link_authors(_, _, _, _)
link_authors(g, as, j, target) ==
    IF j > Len(as) THEN g
    ELSE LET g1 == add_edge(g, as[j], target)
         IN  IF Computed(g1) THEN link_authors(g1, as, j + 1, target) ELSE g1

\* Lines 40-41, from the i-th author on.
RECURSIVE author_loop(_, _, _)
author_loop(g, as, i) ==
    IF i > Len(as) THEN g
    ELSE LET g1 == add_node(g, as[i], "Author", "blue")
         IN  IF Computed(g1) THEN author_loop(g1, as, i + 1) ELSE g1

\* Lines 43-46, from the i-th organization on.
RECURSIVE org_loop(_, _, _, _)
org_loop(g, os, as, i) ==
    IF i > Len(os) THEN g
    ELSE LET g1 == link_authors(add_node(g, os[i], "Organization", "red"),
                                as, 1, os[i])
         IN  IF Computed(g1) THEN org_loop(g1, os, as, i + 1) ELSE g1

\* Lines 48-51, from the i-th citation on.
RECURSIVE citation_loop(_, _, _, _)
citation_loop(g, cs, as, i) ==
    IF i > Len(cs) THEN g
    ELSE LET g1 == link_authors(add_node(g, cs[i], "Citation", "green"),
                                as, 1, cs[i])
         IN  IF Computed(g1) THEN citation_loop(g1, cs, as, i + 1) ELSE g1

create_knowledge_graph_org_cites(as, os, cs) ==
    citation_loop(org_loop(author_loop(nx_Graph, as, 1), os, as, 1),
                  cs, as \o os, 1)

create_knowledge_graph(as, os, cs) ==
    citation_loop(org_loop(author_loop(nx_Graph, as, 1), os, as, 1), cs, as, 1)

\* --------------------------------------------------- render_graph (55-64)

\* net.from_nx(G): the nodes with their label and color, and the edges.
from_nx(g) == [nodes |-> Range(g.node), edges |-> g.edges]

NoTmp == [created |-> FALSE, exists |-> FALSE, content |-> EmptyNet]

\* ------------------------------------------------------------ main (66-95)

None == [present |-> FALSE, ents |-> <<>>]

Blank == [kind |-> "blank", text |-> "", items |-> <<>>]

NoGraph == [shown |-> FALSE, html |-> EmptyNet]

BlankPage ==
    [authors |-> Blank, organizations |-> Blank, citations |-> Blank,
     graph |-> NoGraph, error |-> FALSE]

or_message_never(s, msg) == [kind |-> "set", text |-> "", items |-> s]

\* st.write(s if s else msg): an empty set is false.
or_message(s, msg) ==
    IF Len(s) > 0 THEN [kind |-> "set", text |-> "", items |-> s]
    ELSE [kind |-> "text", text |-> msg, items |-> <<>>]

StageOrder ==
    <<"extract_text", "extract_entities", "show_entities",
      "create_knowledge_graph", "render_graph", "embed">>

after_failure_continue(stage) ==
    IF stage = "extract_text" THEN "extract_entities"
    ELSE IF stage = "extract_entities" THEN "show_entities"
    ELSE "embed"

\* main catches nothing: an exception raised by a stage ends the run.
after_failure(stage) == "aborted"

\* ----------------------------------------------------------------- actions

Docs == SeqsUpTo(Ent, MaxEnts)

Init ==
    /\ pc = "idle"
    /\ uploaded_file = None
    /\ text = <<>>
    /\ authors = <<>>
    /\ organizations = <<>>
    /\ citations = <<>>
    /\ G = nx_Graph
    /\ net = EmptyNet
    /\ tmpfile = NoTmp
    /\ html_code = EmptyNet
    /\ leaked = 0
    /\ page = BlankPage
    /\ failed = "none"
    /\ trace = <<>>

CanRerun == pc \in {"idle", "done", "aborted"}

OnDisk == leaked + (IF tmpfile.exists THEN 1 ELSE 0)

\* Lines 67-69: an interaction starts a script run, with fresh locals and an
\* empty page; the files on the disk stay.
Rerun ==
    /\ CanRerun
    /\ OnDisk <= MaxLeaked
    /\ uploaded_file' = None
    /\ text' = <<>>
    /\ authors' = <<>>
    /\ organizations' = <<>>
    /\ citations' = <<>>
    /\ G' = nx_Graph
    /\ net' = EmptyNet
    /\ tmpfile' = NoTmp
    /\ html_code' = EmptyNet
    /\ leaked' = OnDisk
    /\ page' = BlankPage
    /\ failed' = "none"
    /\ trace' = <<>>
    /\ pc' = "file_uploader"

\* Lines 71-73 with a file in the uploader.
Upload ==
    /\ pc = "file_uploader"
    /\ \E d \in Docs : uploaded_file' = [present |-> TRUE, ents |-> d]
    /\ pc' = "extract_text"
    /\ UNCHANGED <<text, authors, organizations, citations, G, net, tmpfile,
                   html_code, leaked, page, failed, trace>>

\* Lines 71-73 with no file in the uploader: nothing else runs.
NoUpload ==
    /\ pc = "file_uploader"
    /\ uploaded_file' = None
    /\ pc' = "done"
    /\ UNCHANGED <<text, authors, organizations, citations, G, net, tmpfile,
                   html_code, leaked, page, failed, trace>>

Raise(stage) ==
    /\ pc' = after_failure(stage)
    /\ failed' = stage
    /\ page' = [page EXCEPT !.error = TRUE]

\* Line 75.
ExtractText ==
    /\ pc = "extract_text"
    /\ text' = extract_text_from_pdf(uploaded_file)
    /\ trace' = Append(trace, "extract_text")
    /\ pc' = "extract_entities"
    /\ UNCHANGED <<uploaded_file, authors, organizations, citations, G, net,
                   tmpfile, html_code, leaked, page, failed>>

\* Line 75: fitz raises on the uploaded file.
ExtractTextFail ==
    /\ pc = "extract_text"
    /\ trace' = Append(trace, "extract_text")
    /\ Raise("extract_text")
    /\ UNCHANGED <<uploaded_file, text, authors, organizations, citations, G,
                   net, tmpfile, html_code, leaked>>

\* Line 76.
ExtractEntities ==
    /\ pc = "extract_entities"
    /\ LET r == extract_entities(text)
       IN /\ authors' = r.authors
          /\ organizations' = r.organizations
          /\ citations' = r.citations
    /\ trace' = Append(trace, "extract_entities")
    /\ pc' = "show_entities"
    /\ UNCHANGED <<uploaded_file, text, G, net, tmpfile, html_code, leaked,
                   page, failed>>

\* Line 76 (line 21): the NER engine raises.
ExtractEntitiesFail ==
    /\ pc = "extract_entities"
    /\ trace' = Append(trace, "extract_entities")
    /\ Raise("extract_entities")
    /\ UNCHANGED <<uploaded_file, text, authors, organizations, citations, G,
                   net, tmpfile, html_code, leaked>>

\* Lines 78-89.
ShowEntities ==
    /\ pc = "show_entities"
    /\ page' = [page EXCEPT
                  !.authors = or_message(authors, "No authors found"),
                  !.organizations =
                      or_message(organizations, "No organizations found"),
                  !.citations = or_message(citations, "No citations found")]
    /\ trace' = Append(trace, "show_entities")
    /\ pc' = "create_knowledge_graph"
    /\ UNCHANGED <<uploaded_file, text, authors, organizations, citations, G,
                   net, tmpfile, html_code, leaked, failed>>

\* Line 92.
BuildGraph ==
    /\ pc = "create_knowledge_graph"
    /\ G' = create_knowledge_graph(authors, organizations, citations)
    /\ trace' = Append(trace, "create_knowledge_graph")
    /\ pc' = "render_graph"
    /\ UNCHANGED <<uploaded_file, text, authors, organizations, citations, net,
                   tmpfile, html_code, leaked, page, failed>>

\* Lines 57-60: the network, and the temporary file (delete=False).
RenderOpenTmp ==
    /\ pc = "render_graph"
    /\ net' = from_nx(G)
    /\ tmpfile' = [created |-> TRUE, exists |-> TRUE, content |-> EmptyNet]
    /\ trace' = Append(trace, "render_graph")
    /\ pc' = "save_graph"
    /\ UNCHANGED <<uploaded_file, text, authors, organizations, citations, G,
                   html_code, leaked, page, failed>>

\* Line 61.
RenderSave ==
    /\ pc = "save_graph"
    /\ tmpfile' = [tmpfile EXCEPT !.content = net]
    /\ pc' = "read_html"
    /\ UNCHANGED <<uploaded_file, text, authors, organizations, citations, G,
                   net, html_code, leaked, page, failed, trace>>

\* Line 61 raises: the with block closes the file and, with delete=False,
\* leaves it on the disk; line 63 is not reached.
RenderSaveFail ==
    /\ pc = "save_graph"
    /\ Raise("render_graph")
    /\ UNCHANGED <<uploaded_file, text, authors, organizations, citations, G,
                   net, tmpfile, html_code, leaked, trace>>

\* Line 62.
RenderRead ==
    /\ pc = "read_html"
    /\ html_code' = tmpfile.content
    /\ pc' = "unlink"
    /\ UNCHANGED <<uploaded_file, text, authors, organizations, citations, G,
                   net, tmpfile, leaked, page, failed, trace>>

\* Line 62 raises (open or the utf-8 decoding): line 63 is not reached.
RenderReadFail ==
    /\ pc = "read_html"
    /\ Raise("render_graph")
    /\ UNCHANGED <<uploaded_file, text, authors, organizations, citations, G,
                   net, tmpfile, html_code, leaked, trace>>

\* Lines 63-64 and 93.
RenderUnlink ==
    /\ pc = "unlink"
    /\ tmpfile' = [tmpfile EXCEPT !.exists = FALSE]
    /\ pc' = "embed"
    /\ UNCHANGED <<uploaded_file, text, authors, organizations, citations, G,
                   net, html_code, leaked, page, failed, trace>>

\* Line 95.
Embed ==
    /\ pc = "embed"
    /\ page' = [page EXCEPT !.graph = [shown |-> TRUE, html |-> html_code]]
    /\ trace' = Append(trace, "embed")
    /\ pc' = "done"
    /\ UNCHANGED <<uploaded_file, text, authors, organizations, citations, G,
                   net, tmpfile, html_code, leaked, failed>>

Next ==
    \/ Rerun
    \/ Upload
    \/ NoUpload
    \/ ExtractText
    \/ ExtractTextFail
    \/ ExtractEntities
    \/ ExtractEntitiesFail
    \/ ShowEntities
    \/ BuildGraph
    \/ RenderOpenTmp
    \/ RenderSave
    \/ RenderSaveFail
    \/ RenderRead
    \/ RenderReadFail
    \/ RenderUnlink
    \/ Embed

Spec == Init /\ [][Next]_vars

\* create_knowledge_graph as a function of its three arguments: any three
\* sets of strings, each in any order of iteration.
InitGraph ==
    /\ pc = "create_knowledge_graph"
    /\ uploaded_file = None
    /\ text = <<>>
    /\ authors \in PySets(Texts)
    /\ organizations \in PySets(Texts)
    /\ citations \in PySets(Texts)
    /\ G = nx_Graph
    /\ net = EmptyNet
    /\ tmpfile = NoTmp
    /\ html_code = EmptyNet
    /\ leaked = 0
    /\ page = BlankPage
    /\ failed = "none"
    /\ trace = <<>>

NextGraph == BuildGraph

SpecGraph == InitGraph /\ [][NextGraph]_vars

\* ---------------------------------------------------------------- read-outs

\* The texts of the entities of the uploaded file whose label is in ls.
EntTexts(ls) ==
    {uploaded_file.ents[i].text :
        i \in {k \in 1..Len(uploaded_file.ents) : uploaded_file.ents[k].label_ \in ls}}

Consumed == {"PERSON", "ORG", "WORK_OF_ART", "MISC"}

Entered(stage) == \E i \in 1..Len(trace) : trace[i] = stage

\* The stage has run to its end in this run.
Extracted == Entered("extract_entities") /\ failed # "extract_entities"

Shown == Entered("show_entities")

GraphBuilt == Entered("create_knowledge_graph")

NodeIds(g) == {g.node[i].id : i \in 1..Len(g.node)}

NodeLabel(g, n) == g.node[CHOOSE i \in 1..Len(g.node) : g.node[i].id = n].label

Disjoint3(a, b, c) == a \cap b = {} /\ a \cap c = {} /\ b \cap c = {}

IsPrefix(s, t) == Len(s) <= Len(t) /\ \A i \in 1..Len(s) : s[i] = t[i]

ListsBlank ==
    /\ page.authors = Blank
    /\ page.organizations = Blank
    /\ page.citations = Blank

\* ------------------------------------------------------------------- claims

\* C1: the graph create_knowledge_graph returns holds both end points and the
\* edge (A, X) for every author A and every organization or citation X, for
\* any three input sets.
C1_AllPairsLinked ==
    pc = "render_graph" =>
        \A a \in Range(authors) :
            \A x \in Range(organizations) \cup Range(citations) :
                /\ has_node(G, a)
                /\ has_node(G, x)
                /\ {a, x} \in G.edges

\* C1 witness: two authors, an organization and a citation, one string being
\* both an author and an organization.
C1_Witness ==
    /\ pc = "render_graph"
    /\ Len(authors) = 2
    /\ Len(organizations) >= 1
    /\ Len(citations) >= 1
    /\ Range(authors) \cap Range(organizations) # {}
    /\ Cardinality(G.edges) >= 4

\* C2: every edge of the graph built from the sets of extract_entities joins
\* a node labelled Author to a different node labelled Organization or
\* Citation.
C2_EdgesAuthorToOther ==
    GraphBuilt =>
        \A e \in G.edges :
            \E a, x \in NodeIds(G) :
                /\ e = {a, x}
                /\ a # x
                /\ NodeLabel(G, a) = "Author"
                /\ NodeLabel(G, x) \in {"Organization", "Citation"}

\* C3: the text of every entity labelled PERSON is in the author set and in
\* neither the organization set nor the citation set.
C3_PersonOnlyAuthor ==
    Extracted =>
        \A t \in EntTexts({"PERSON"}) :
            /\ t \in Range(authors)
            /\ t \notin Range(organizations)
            /\ t \notin Range(citations)

\* C4: a text is in the organization set exactly when an entity with that
\* text is labelled ORG, in the citation set exactly when one is labelled
\* WORK_OF_ART or MISC, and every text in any of the three sets comes from an
\* entity with one of the four consumed labels.
C4_BucketsByLabel ==
    Extracted =>
        /\ Range(organizations) = EntTexts({"ORG"})
        /\ Range(citations) = EntTexts({"WORK_OF_ART", "MISC"})
        /\ Range(authors) \cup Range(organizations) \cup Range(citations)
               \subseteq EntTexts(Consumed)

\* C4 witness: a run that met a MISC entity, an ORG entity and an entity with
\* a label the program drops, whose text is in no set.
C4_Witness ==
    /\ Extracted
    /\ EntTexts({"MISC"}) # {}
    /\ EntTexts({"ORG"}) # {}
    /\ \E t \in EntTexts({"GPE"}) :
          t \notin Range(authors) \cup Range(organizations) \cup Range(citations)

\* C5: for pairwise disjoint input sets the graph has |authors| +
\* |organizations| + |citations| nodes and |authors| * (|organizations| +
\* |citations|) edges; without authors it has no edge.
C5_NodeAndEdgeCount ==
    pc = "render_graph" =>
        /\ Disjoint3(Range(authors), Range(organizations), Range(citations)) =>
              /\ Len(G.node) = Len(authors) + Len(organizations) + Len(citations)
              /\ Cardinality(G.edges) =
                     Len(authors) * (Len(organizations) + Len(citations))
        /\ authors = <<>> => G.edges = {}

\* C5 witness: one author and one organization give two nodes and one edge.
C5_Witness ==
    /\ pc = "render_graph"
    /\ Len(authors) = 1
    /\ Len(organizations) = 1
    /\ citations = <<>>
    /\ authors # organizations
    /\ Len(G.node) = 2
    /\ Cardinality(G.edges) = 1

\* C6: each of the three entity sets holds a text at most once, and the graph
\* holds at most one node per text.
C6_Deduplicated ==
    /\ IsPySet(authors)
    /\ IsPySet(organizations)
    /\ IsPySet(citations)
    /\ \A i, j \in 1..Len(G.node) : G.node[i].id = G.node[j].id => i = j

\* C6 witness: the same text was detected twice under one label and once
\* more under a label of another category, and the graph is built.
C6_Witness ==
    /\ GraphBuilt
    /\ \E i, j, k \in 1..Len(uploaded_file.ents) :
          /\ i < j
          /\ uploaded_file.ents[i] = uploaded_file.ents[j]
          /\ uploaded_file.ents[i].label_ = "PERSON"
          /\ uploaded_file.ents[k].label_ = "ORG"
          /\ uploaded_file.ents[k].text = uploaded_file.ents[i].text
    /\ Len(G.node) = 1

ListOk(col, found, msg) ==
    IF found = {}
    THEN col.kind = "text" /\ col.text = msg /\ col.items = <<>>
    ELSE col.kind = "set" /\ Range(col.items) = found /\ col.text = ""

\* C7: once the lists are written, a category without entity shows its
\* "No ... found" text and no collection, and a category with entities shows
\* their set and no such text.
C7_ExplicitNoneFound ==
    Shown =>
        /\ ListOk(page.authors, EntTexts({"PERSON"}), "No authors found")
        /\ ListOk(page.organizations, EntTexts({"ORG"}), "No organizations found")
        /\ ListOk(page.citations, EntTexts({"WORK_OF_ART", "MISC"}),
                  "No citations found")

\* C7 witness: authors were found, organizations and citations were not.
C7_Witness ==
    /\ Shown
    /\ page.authors.kind = "set"
    /\ page.organizations.text = "No organizations found"
    /\ page.citations.text = "No citations found"

\* C8: a run that created its temporary file has deleted it when it ends,
\* whether it ended with the HTML or with an exception.
C8_TmpFileDeleted ==
    (pc \in {"done", "aborted"} /\ tmpfile.created) => ~tmpfile.exists

\* The stages entered up to the failing one, each once and in order.
AbortedAt(stage) ==
    /\ pc = "aborted"
    /\ IsPrefix(trace, StageOrder)
    /\ trace # <<>>
    /\ trace[Len(trace)] = stage

\* C9 as claimed: after a failure the run is aborted at the failing stage
\* and the page shows neither entity lists nor a graph.
C9_NoPartialResult ==
    failed # "none" =>
        /\ AbortedAt(failed)
        /\ ListsBlank
        /\ ~page.graph.shown

\* C9 as amended: after a failure the run is aborted at the failing stage,
\* no later stage has run and none has run twice, and the page shows no
\* graph; it shows no entity lists when text extraction or NER failed, and
\* shows the lists already written when graph rendering failed.
C9_AbortedAtStage ==
    failed # "none" =>
        /\ AbortedAt(failed)
        /\ ~page.graph.shown
        /\ failed \in {"extract_text", "extract_entities"} => ListsBlank
        /\ failed = "render_graph" =>
              /\ page.authors # Blank
              /\ page.organizations # Blank
              /\ page.citations # Blank

\* C9 witness: rendering failed after the lists were written.
C9_Witness ==
    /\ failed = "render_graph"
    /\ pc = "aborted"
    /\ page.authors.kind = "set"
    /\ page.error

\* C10: what a finished run shows comes from the file of that run alone: the
\* stages ran once each and in order, the lists are the texts of its
\* entities, the graph holds exactly their nodes and the author links; no
\* graph holds a node that is no entity of the file; without a file no stage
\* runs and the page stays empty.
C10_LatestUploadOnly ==
    /\ GraphBuilt => NodeIds(G) \subseteq EntTexts(Consumed)
    /\ (pc = "done" /\ uploaded_file.present) =>
          /\ trace = StageOrder
          /\ Range(page.authors.items) = EntTexts({"PERSON"})
          /\ Range(page.organizations.items) = EntTexts({"ORG"})
          /\ Range(page.citations.items) = EntTexts({"WORK_OF_ART", "MISC"})
          /\ page.graph.shown
          /\ {n.id : n \in page.graph.html.nodes} = EntTexts(Consumed)
          /\ page.graph.html.edges =
                 {{a, x} : a \in EntTexts({"PERSON"}),
                           x \in EntTexts({"ORG", "WORK_OF_ART", "MISC"})}
    /\ (pc = "done" /\ ~uploaded_file.present) =>
          /\ trace = <<>>
          /\ page = BlankPage
          /\ G = nx_Graph

\* C10 witness: a run that finished after an earlier run had failed and left
\* its file behind, on a file with an author linked to an organization.
C10_Witness ==
    /\ pc = "done"
    /\ uploaded_file.present
    /\ leaked = 1
    /\ page.graph.html.edges # {}
    /\ EntTexts(Consumed) # DocTexts

====
